---- MODULE Spec2Model ----
(***************************************************************************)
(* The two pipelines of angew-open-access-tracker and the CSV file they    *)
(* share.                                                                  *)
(*                                                                         *)
(*   "scaper"  = src/angew_scaper.py  (Crossref + Europe PMC enrichment)   *)
(*   "scraper" = src/angew_scraper.py (Crossref only)                      *)
(*                                                                         *)
(* Both scripts are configured with the same file name,                    *)
(* "angew_open_access_papers.csv", so one store variable serves both.      *)
(*                                                                         *)
(* A raw Crossref item is a function from the keys it carries to values;   *)
(* a key the item lacks is simply not in its domain, and dict.get is Get.  *)
(* Items of the model carry no title, URL, license or author keys, so the  *)
(* code's defaults for those columns are what is written.  Python's None   *)
(* is the reserved string None (for text) or NonePart (for a date part).   *)
(*                                                                         *)
(* A record carries `item`, the position in the page of the item it was    *)
(* built from; that field is never written.  When a run has ended, its     *)
(* page, calls and new entries stay on record: from there the same script  *)
(* can be run again on the same page, or the record is dropped (Forget)    *)
(* and either script can be started on any page.                           *)
(***************************************************************************)
EXTENDS Integers, Sequences, FiniteSets, TLC

VARIABLES
    store,          \* the CSV file: [exists, lines]
    pc,             \* where the running script is; "idle" between runs
    variant,        \* which script runs (or ran last)
    items,          \* data["message"]["items"] of the run's fetch
    papers,         \* scaper: the list find_open_access_angew_papers_from returns
    existing_dois,  \* the set read from the store
    new_entries,    \* the records the run is going to append
    idx,            \* scaper: position of the enrichment loop in new_entries
    resp,           \* scaper: the Europe PMC response of the last lookup
    calls,          \* the run's external calls, in order
    outcome,        \* how the last run ended, "running" during a run
    rerun           \* the run repeats the previous run's variant and page

vars == <<store, pc, variant, items, papers, existing_dois, new_entries, idx,
          resp, calls, outcome, rerun>>

(* ------------------------------ bounds --------------------------------- *)

\* A page holds at most MaxPage raw items.
MaxPage == 2
\* A run starts only while the store holds at most MaxRows data rows.
MaxRows == 1

(* --------------------------- Python values ----------------------------- *)

None == "<None>"
NonePart == -1
EmptyDict == <<>>
Sentinel == "Abstract not available"

\* dict.get(key, default)
Get(d, key, default) == IF key \in DOMAIN d THEN d[key] ELSE default

\* Python truthiness of a text value, and `x or y`
Falsy(s) == s = None \/ s = ""
Or(x, y) == IF Falsy(x) THEN y ELSE x

\* the inline abstract of the model's items: JATS markup and a line break
InlineAbstract == "<jats:p>Inline\nabstract.</jats:p>"

\* str.strip() on the texts of the model: only " " has blanks at its ends
Strip(s) == IF s = " " THEN "" ELSE s

\* .replace("\n", " ") on the texts of the model
ReplaceNewlines(s) ==
    IF s = InlineAbstract THEN "<jats:p>Inline abstract.</jats:p>" ELSE s

\* .replace("<jats:p>", "").replace("</jats:p>", "") on the texts of the model
RemoveJatsP(s) == IF s = InlineAbstract THEN "Inline\nabstract." ELSE s

Range(s) == {s[i] : i \in 1..Len(s)}

RECURSIVE SelectIdx(_, _)
\* the indices from i on at which the sequence keep is TRUE, in order
SelectIdx(keep, i) ==
    IF i > Len(keep) THEN <<>>
    ELSE (IF keep[i] THEN <<i>> ELSE <<>>) \o SelectIdx(keep, i + 1)

(* ------------------------------ the store ------------------------------ *)

CSV_FILE_fieldnames ==
    <<"title", "year", "doi", "url", "license", "abstract", "retrieved">>
OUTPUT_FILE_fieldnames ==
    <<"Title", "Authors", "DOI", "URL", "Date", "Abstract">>

NoFile == [exists |-> FALSE, lines |-> <<>>]

\* csv.writer's rendering of one value; csv.reader returns the text unchanged
CsvCell(col, v) ==
    IF col = "year" THEN (IF v = NonePart THEN "" ELSE ToString(v))
    ELSE IF v = None THEN "" ELSE v

HeaderLine(fieldnames) == [kind |-> "header", cols |-> fieldnames, cells |-> fieldnames]
RowLine(fieldnames, p) ==
    [kind |-> "row", cols |-> fieldnames,
     cells |-> [k \in 1..Len(fieldnames) |-> CsvCell(fieldnames[k], p[fieldnames[k]])]]

\* csv.DictReader: the first line names the keys of every later line
DictReader(f) ==
    IF f.lines = <<>> THEN <<>>
    ELSE LET names == f.lines[1].cells
             Dict(cells) ==
                 [n \in Range(names) |->
                    LET k == CHOOSE j \in 1..Len(names) : names[j] = n
                    IN IF k <= Len(cells) THEN cells[k] ELSE None]
         IN [i \in 1..(Len(f.lines) - 1) |-> Dict(f.lines[i + 1].cells)]

\* the read with row.get(key) in place of row[key]: no KeyError
KeyError_get(f, key) == FALSE

\* the loop `for row in reader: ... row[key]` raises KeyError on the first row
\* whose dict lacks the key
KeyError(f, key) == \E i \in 1..Len(DictReader(f)) : key \notin DOMAIN DictReader(f)[i]
ColumnOf(f, key) == {Get(DictReader(f)[i], key, None) : i \in 1..Len(DictReader(f))}

\* the write with open(..., "w") in place of "a": the file is started afresh
AppendRows_truncating(f, fieldnames, entries) ==
    [exists |-> TRUE,
     lines |-> <<HeaderLine(fieldnames)>>
               \o [i \in 1..Len(entries) |-> RowLine(fieldnames, entries[i])]]

\* os.path.exists + open(..., "a") + DictWriter: header when the file is new
AppendRows(f, fieldnames, entries) ==
    [exists |-> TRUE,
     lines |-> f.lines
               \o (IF ~f.exists THEN <<HeaderLine(fieldnames)>> ELSE <<>>)
               \o [i \in 1..Len(entries) |-> RowLine(fieldnames, entries[i])]]

DataRows(f) == IF f.lines = <<>> THEN 0 ELSE Len(f.lines) - 1

(* ------------------------------ Crossref ------------------------------- *)

\* the fetch without its raise_for_status() call
raise_for_status_never(r) == FALSE

\* response.raise_for_status()
raise_for_status(r) == r.status = "http_error"
\* requests.get raises on a network failure, raise_for_status on a bad status
FetchFails(r) == r.status = "network_error" \/ raise_for_status(r)

Pages(Items) == UNION {[1..n -> Items] : n \in 0..MaxPage}
\* a response that is not a success carries no work items
Responses(Items) ==
    [status : {"ok"}, items : Pages(Items)]
    \cup [status : {"http_error", "network_error"}, items : {<<>>}]

Item(doi, abstract, issued) ==
    (IF doi = None THEN EmptyDict ELSE ("DOI" :> doi))
    @@ (IF abstract = None THEN EmptyDict ELSE ("abstract" :> abstract))
    @@ (IF issued = <<>> THEN EmptyDict
        ELSE ("issued" :> ("date-parts" :> <<issued>>)))

\* the pages of Spec: an item without a DOI key or with one of two DOIs, each
\* with and without an inline abstract, and an item whose DOI is the empty text
RawItems ==
    {Item(d, a, <<>>) : d \in {None, "10.1/abc", "10.1/xyz"},
                        a \in {None, InlineAbstract}}
    \cup {Item("", None, <<>>)}

\* the pages of SpecDate: every date-parts case
DateItems ==
    {Item(d, None, p) : d \in {"10.1/abc", "10.1/xyz"},
                        p \in {<<>>, <<NonePart>>, <<2024>>, <<2024, 7>>,
                               <<2024, 7, 15>>}}

date_parts(i) == Get(Get(i, "issued", EmptyDict), "date-parts", <<<<NonePart>>>>)

(* ------------------------------ Europe PMC ----------------------------- *)

EuropePmcResponses ==
    {"network_error", "not_ok", "malformed", "empty_results", "no_abstract",
     "blank_abstract", "found"}

\* an exception leaving a function, where a value is expected
Raises == "<raises>"

\* the lookup without its try/except: a network failure leaves the function
get_abstract_from_europepmc_no_except(r) ==
    CASE r = "network_error" -> Raises
      [] r = "not_ok" -> None
      [] r = "malformed" -> Raises
      [] r = "empty_results" -> None
      [] r = "no_abstract" -> None
      [] r = "blank_abstract" -> Strip(" ")
      [] OTHER -> Strip("Example abstract.")

\* get_abstract_from_europepmc: what the function returns for each response
get_abstract_from_europepmc(r) ==
    CASE r = "network_error" -> None           \* except Exception
      [] r = "not_ok" -> None                  \* if not response.ok
      [] r = "malformed" -> None               \* json()/get raise, except Exception
      [] r = "empty_results" -> None           \* if not results
      [] r = "no_abstract" -> None             \* abstractText missing
      [] r = "blank_abstract" -> Strip(" ")    \* abstract.strip()
      [] OTHER -> Strip("Example abstract.")

(* --------------------------- normalisation ----------------------------- *)

\* scaper: lines 29-43, one item
ScaperPaper(i, k) ==
    [title |-> "No title",
     doi |-> Get(i, "DOI", ""),
     url |-> "",
     license |-> "No license info",
     year |-> date_parts(i)[1][1],
     abstract |-> Or(Strip(ReplaceNewlines(Get(i, "abstract", ""))), None),
     item |-> k]

RECURSIVE JoinDash(_)
JoinDash(s) ==
    IF s = <<>> THEN ""
    ELSE IF Len(s) = 1 THEN ToString(s[1])
    ELSE ToString(s[1]) \o "-" \o JoinDash(Tail(s))

\* `... for p in date_parts[0] if p`
Truthy(p) == p # NonePart /\ p # 0
PresentParts(s) == SelectSeq(s, Truthy)

\* scraper: lines 59-72, one item
ScraperEntry(i, k) ==
    [Title |-> "",
     Authors |-> "",
     DOI |-> Get(i, "DOI", ""),
     URL |-> "",
     Date |-> JoinDash(PresentParts(date_parts(i)[1])),
     Abstract |-> Strip(RemoveJatsP(Get(i, "abstract", ""))),
     item |-> k]

\* scaper lines 27-45: the papers of a page
ScaperPapers(its) == [k \in 1..Len(its) |-> ScaperPaper(its[k], k)]

\* scraper line 57: `if not doi or doi in existing_dois: continue`
ScraperSkips(doi, existing) == doi = "" \/ doi \in existing

\* the filter of line 78 left out: every paper is taken as new
ScaperKeeps_all(doi, existing) == TRUE

\* scaper line 78: `p["doi"] not in existing_dois`
ScaperKeeps(doi, existing) == doi \notin existing

(* -------------------------------- runs --------------------------------- *)

Event(op, i, r) == [op |-> op, i |-> i, r |-> r]

Init ==
    /\ store = NoFile
    /\ pc = "idle"
    /\ variant = "scaper"
    /\ items = <<>>
    /\ papers = <<>>
    /\ existing_dois = {}
    /\ new_entries = <<>>
    /\ idx = 0
    /\ resp = "none"
    /\ calls = <<>>
    /\ outcome = "none"
    /\ rerun = FALSE

\* a run's locals as a new process finds them
FreshLocals ==
    /\ existing_dois' = {}
    /\ new_entries' = <<>>
    /\ idx' = 0
    /\ resp' = "none"

\* no run is on record: any script may be started, on any page
NoRecord == calls = <<>>

\* the run on record got its page: the same script may be run again on it
Repeats(v, r) ==
    /\ outcome \in {"none", "added", "store_error", "enrich_error"}
    /\ v = variant
    /\ r.status = "ok" => r.items = items

\* a script is started and makes its Crossref request
Fetch(v, Items, next) ==
    /\ pc = "idle"
    /\ DataRows(store) <= MaxRows
    /\ \E r \in Responses(Items) :
         /\ NoRecord \/ Repeats(v, r)
         /\ variant' = v
         /\ calls' = <<Event("fetch", 0, r.status)>>
         /\ FreshLocals
         /\ IF FetchFails(r)
            THEN /\ pc' = "idle"
                 /\ outcome' = "fetch_error"
                 /\ items' = <<>>
                 /\ papers' = <<>>
                 /\ rerun' = FALSE
            ELSE /\ pc' = next
                 /\ outcome' = "running"
                 /\ items' = r.items
                 /\ papers' = IF v = "scaper" THEN ScaperPapers(r.items) ELSE <<>>
                 /\ rerun' = ~NoRecord
    /\ UNCHANGED store

\* the record of the finished run is dropped; nothing of the program changes
Forget ==
    /\ pc = "idle"
    /\ ~NoRecord
    /\ calls' = <<>>
    /\ variant' = "scaper"
    /\ items' = <<>>
    /\ new_entries' = <<>>
    /\ outcome' = "none"
    /\ rerun' = FALSE
    /\ UNCHANGED <<store, pc, papers, existing_dois, idx, resp>>

\* scaper __main__ line 106: find_open_access_angew_papers_from(START_DATE)
find_open_access_angew_papers_from(Items) ==
    Fetch("scaper", Items, "save_results_to_csv")

\* scraper main() lines 46-51: get_crossref_data(from_date)
get_crossref_data(Items) == Fetch("scraper", Items, "load_existing_dois")

\* the process ends: its report is kept, its other locals are gone
Finish(how) ==
    /\ pc' = "idle"
    /\ outcome' = how
    /\ papers' = <<>>
    /\ existing_dois' = {}
    /\ idx' = 0
    /\ resp' = "none"

\* scaper line 78: the papers whose DOI is not in the store, in page order
NewPapers(ps, existing) ==
    LET keep == [k \in 1..Len(ps) |-> ScaperKeeps(ps[k].doi, existing)]
        kept == SelectIdx(keep, 1)
    IN [j \in 1..Len(kept) |-> ps[kept[j]]]

\* scaper save_results_to_csv lines 71-82: read the store, keep the new papers
save_results_to_csv ==
    /\ pc = "save_results_to_csv"
    /\ calls' = Append(calls, Event("read_store", 0, ""))
    /\ IF KeyError(store, "doi")
       THEN /\ Finish("store_error")
            /\ UNCHANGED new_entries
       ELSE /\ new_entries' = NewPapers(papers, ColumnOf(store, "doi"))
            /\ IF new_entries' = <<>>
               THEN Finish("none")
               ELSE /\ pc' = "enrich"
                    /\ idx' = 1
                    /\ existing_dois' = ColumnOf(store, "doi")
                    /\ UNCHANGED <<outcome, papers, resp>>
    /\ UNCHANGED <<store, variant, items, rerun>>

\* scaper lines 86-90: the body of the enrichment loop for entry p
Enriched(p, r) ==
    [p EXCEPT !.abstract = Or(get_abstract_from_europepmc(r), Sentinel)]
LookupCalls(k) == <<Event("lookup", k, ""), Event("sleep", k, "")>>

\* scaper save_results_to_csv lines 85-90: one turn of the enrichment loop
enrich ==
    /\ pc = "enrich"
    /\ idx <= Len(new_entries)
    /\ IF Falsy(new_entries[idx].abstract)
       THEN \E r \in EuropePmcResponses :
              IF get_abstract_from_europepmc(r) = Raises
              THEN \* nothing in save_results_to_csv or __main__ catches it
                   /\ calls' = Append(calls, Event("lookup", idx, ""))
                   /\ Finish("enrich_error")
                   /\ UNCHANGED new_entries
              ELSE /\ resp' = r
                   /\ new_entries' = [new_entries EXCEPT ![idx] = Enriched(@, r)]
                   /\ calls' = calls \o LookupCalls(idx)
                   /\ idx' = idx + 1
                   /\ UNCHANGED <<pc, papers, existing_dois, outcome>>
       ELSE /\ idx' = idx + 1
            /\ UNCHANGED <<resp, new_entries, calls, pc, papers, existing_dois,
                           outcome>>
    /\ UNCHANGED <<store, variant, items, rerun>>

\* datetime.now().strftime("%Y-%m-%d %H:%M"): the clock is not modelled
Now == "2025-07-01 09:00"

\* scaper save_results_to_csv lines 92-102: append the rows
write ==
    /\ pc = "enrich"
    /\ idx > Len(new_entries)
    /\ new_entries' = [j \in 1..Len(new_entries) |->
                         new_entries[j] @@ ("retrieved" :> Now)]
    /\ store' = AppendRows(store, CSV_FILE_fieldnames, new_entries')
    /\ calls' = Append(calls, Event("append", Len(new_entries), ""))
    /\ Finish("added")
    /\ UNCHANGED <<variant, items, rerun>>

\* scraper load_existing_dois lines 26-31
load_existing_dois ==
    /\ pc = "load_existing_dois"
    /\ calls' = Append(calls, Event("read_store", 0, ""))
    /\ IF KeyError(store, "DOI")
       THEN Finish("store_error")
       ELSE /\ existing_dois' = ColumnOf(store, "DOI")
            /\ pc' = "main"
            /\ UNCHANGED <<outcome, papers, idx, resp>>
    /\ UNCHANGED <<store, variant, items, new_entries, rerun>>

\* scraper lines 54-72: the entries of the items main() does not skip
NewEntries(its, existing) ==
    LET keep == [k \in 1..Len(its) |-> ~ScraperSkips(Get(its[k], "DOI", ""), existing)]
        kept == SelectIdx(keep, 1)
    IN [j \in 1..Len(kept) |-> ScraperEntry(its[kept[j]], kept[j])]

\* scraper main() lines 54-78: build new_entries, then append or report none
main ==
    /\ pc = "main"
    /\ new_entries' = NewEntries(items, existing_dois)
    /\ IF new_entries' # <<>>
       THEN /\ store' = AppendRows(store, OUTPUT_FILE_fieldnames, new_entries')
            /\ calls' = Append(calls, Event("append", Len(new_entries'), ""))
            /\ Finish("added")
       ELSE /\ Finish("none")
            /\ UNCHANGED <<store, calls>>
    /\ UNCHANGED <<variant, items, rerun>>

NextOver(Items) ==
    \/ find_open_access_angew_papers_from(Items)
    \/ save_results_to_csv
    \/ enrich
    \/ write
    \/ get_crossref_data(Items)
    \/ load_existing_dois
    \/ main
    \/ Forget

Next == NextOver(RawItems)
Spec == Init /\ [][Next]_vars

NextDate == NextOver(DateItems)
SpecDate == Init /\ [][NextDate]_vars

(* ------------------------------ the claims ----------------------------- *)

IsPrefix(s, t) == Len(s) <= Len(t) /\ SubSeq(t, 1, Len(s)) = s

\* the store's columns for the identifier, the abstract and the date
HeaderOf(f) == f.lines[1].cells
DoiKey(f) == IF "doi" \in Range(HeaderOf(f)) THEN "doi" ELSE "DOI"
AbstractKey(f) == IF "abstract" \in Range(HeaderOf(f)) THEN "abstract" ELSE "Abstract"
DateKey(f) == IF "year" \in Range(HeaderOf(f)) THEN "year" ELSE "Date"
Rows(f) == DictReader(f)

\* the row the finished run wrote for its j-th new entry
RowOfEntry(f, j) == Rows(f)[DataRows(f) - Len(new_entries) + j]

\* the script's own identifier column
OwnKey(v) == IF v = "scaper" THEN "doi" ELSE "DOI"
\* the store was written by the other script
ForeignStore(f, v) == f.exists /\ OwnKey(v) \notin Range(HeaderOf(f))

RanAndAdded == pc = "idle" /\ outcome = "added"
Lookups(cs) == SelectSeq(cs, LAMBDA e : e.op = "lookup")
NoInlineAbstract(i) == Get(i, "abstract", "") = ""

\* C1 (as stated): when a run repeats the previous run's script and page, it
\* appends no row and reports that no new papers were found.
C1_SecondRunReportsNone ==
    [][rerun' => /\ store' = store
                 /\ (pc' = "idle" => outcome' = "none")]_vars

\* C1 (amended): when a run repeats the previous run's script and page, it
\* appends no row; it reports that no new papers were found when the store is
\* absent or was written by the same script, and it ends with the store read's
\* KeyError when the store was written by the other script.
C1_SecondRunAddsNothing ==
    [][rerun' => /\ store' = store
                 /\ (pc' = "idle" =>
                       outcome' = IF ForeignStore(store, variant')
                                  THEN "store_error" ELSE "none")]_vars

\* C1 witness: a repeated run over a non-empty page has ended reporting none,
\* on a store the first run had filled.
C1_Witness ==
    /\ rerun /\ pc = "idle" /\ outcome = "none"
    /\ items # <<>> /\ DataRows(store) >= Len(items)

\* C2: no two rows of the store carry the same identifier.
C2_UniqueIdentifiers ==
    \A i, j \in 1..DataRows(store) :
        i # j => Rows(store)[i][DoiKey(store)] # Rows(store)[j][DoiKey(store)]

\* C3: a step that ends a run with k additions leaves N + k rows of which the
\* first N (and the header) are as before; every other step leaves the store
\* as it is.
C3_AppendOnly ==
    [][IF pc # "idle" /\ pc' = "idle" /\ outcome' = "added"
       THEN /\ DataRows(store') = DataRows(store) + Len(new_entries')
            /\ Len(new_entries') > 0
            /\ IsPrefix(store.lines, store'.lines)
            /\ store'.exists
       ELSE store' = store]_vars

\* C3 witness: a run has added rows to a store that already held rows.
C3_Witness ==
    /\ RanAndAdded
    /\ DataRows(store) > Len(new_entries)

\* C4: no row of the store has an empty identifier.
C4_NoEmptyIdentifier ==
    \A i \in 1..DataRows(store) : Rows(store)[i][DoiKey(store)] # ""

\* C5: every row has a non-empty abstract, and the row of an item without an
\* inline abstract holds the enrichment's text or, failing that, the sentinel.
C5_FallbackSentinel ==
    /\ \A i \in 1..DataRows(store) : Rows(store)[i][AbstractKey(store)] # ""
    /\ RanAndAdded =>
         \A j \in 1..Len(new_entries) :
            NoInlineAbstract(items[new_entries[j].item]) =>
               RowOfEntry(store, j)[AbstractKey(store)]
                  \in {"Example abstract.", Sentinel}

\* C6: a run whose Crossref request fails ends at once with an error: the
\* store is as before the run and nothing was called after the request.
C6_FetchFailureIsFatal ==
    [][(calls' # <<>> /\ calls'[1].r \in {"http_error", "network_error"}) =>
          /\ pc' = "idle"
          /\ outcome' = "fetch_error"
          /\ store' = store
          /\ Len(calls') = 1
          /\ new_entries' = <<>>]_vars

\* C6 witness: a request has failed with a bad status while the store held rows.
C6_Witness ==
    /\ pc = "idle" /\ outcome = "fetch_error"
    /\ calls[1].r = "http_error"
    /\ DataRows(store) > 0

EnrichmentFailures ==
    {"network_error", "not_ok", "malformed", "empty_results", "no_abstract"}

\* C7: a lookup that fails in any way leaves the sentinel in its record and the
\* loop running, with its next turn or the write enabled; a run that made a
\* lookup ends only by appending a row for every new record, with the record's
\* identifier and abstract.
C7_EnrichmentNeverAborts ==
    [][/\ (pc = "enrich" /\ Len(Lookups(calls')) > Len(Lookups(calls))) =>
             /\ pc' = "enrich"
             /\ idx' = idx + 1
             /\ idx' <= Len(new_entries') + 1
             /\ resp' \in EnrichmentFailures =>
                   new_entries'[idx].abstract = Sentinel
       /\ (pc' = "idle" /\ Lookups(calls') # <<>>) =>
             /\ outcome' = "added"
             /\ DataRows(store') >= Len(new_entries')
             /\ \A j \in 1..Len(new_entries') :
                  LET row == Rows(store')[DataRows(store') - Len(new_entries') + j]
                  IN /\ row["doi"] = new_entries'[j].doi
                     /\ row["abstract"] = new_entries'[j].abstract]_vars

\* C7 witness: a run whose lookup found nothing has ended by appending the
\* record with the sentinel.
C7_Witness ==
    /\ RanAndAdded /\ variant = "scaper"
    /\ Lookups(calls) # <<>>
    /\ \E j \in 1..Len(new_entries) :
          RowOfEntry(store, j)["abstract"] = Sentinel

\* C8: an existing store starts with its one header line, and every later
\* line is a row written with the header's columns in the header's order.
C8_FixedSchema ==
    IF store.exists
    THEN /\ store.lines # <<>>
         /\ store.lines[1].kind = "header"
         /\ \A i \in 2..Len(store.lines) :
               /\ store.lines[i].kind = "row"
               /\ store.lines[i].cols = HeaderOf(store)
               /\ Len(store.lines[i].cells) = Len(HeaderOf(store))
    ELSE store.lines = <<>>

\* C8 witness: one script has run against the store the other script wrote.
C8_Witness ==
    /\ pc = "idle" /\ outcome = "store_error"
    /\ ForeignStore(store, variant)
    /\ DataRows(store) > 0

\* the text the claim gives for the date parts of an item
ClaimedDate(parts) ==
    CASE parts = <<2024>> -> "2024"
      [] parts = <<2024, 7>> -> "2024-7"
      [] parts = <<2024, 7, 15>> -> "2024-7-15"
      [] OTHER -> ""

\* C9: the date a run writes for a record is the item's present date parts
\* joined with "-".
C9_DateNormalization ==
    RanAndAdded =>
       \A j \in 1..Len(new_entries) :
          RowOfEntry(store, j)[DateKey(store)]
             = ClaimedDate(date_parts(items[new_entries[j].item])[1])

\* the new entries that come from an item without an inline abstract
NeedLookup ==
    SelectIdx([j \in 1..Len(new_entries) |->
                 NoInlineAbstract(items[new_entries[j].item])], 1)

\* the calls of a run are: the fetch, the store read, then lookup and pause by
\* turns, then the append
WellOrdered(cs) ==
    /\ cs # <<>> => cs[1].op = "fetch"
    /\ Len(cs) >= 2 => cs[2].op = "read_store"
    /\ \A k \in 1..Len(cs) :
          /\ cs[k].op = "fetch" => k = 1
          /\ cs[k].op = "read_store" => k = 2
          /\ cs[k].op = "lookup" => k > 2 /\ k < Len(cs) /\ cs[k + 1] = [cs[k] EXCEPT !.op = "sleep"]
          /\ cs[k].op = "sleep" => k > 3 /\ cs[k - 1].op = "lookup"
          /\ cs[k].op = "append" => k = Len(cs)

\* C10: a run that adds rows has looked up, once each and in order, exactly
\* its new records that had no inline abstract, and a run that adds none has
\* looked up nothing; each lookup is followed by the pause, all of it after the
\* fetch and the store read and before the append.
C10_EnrichmentOrder ==
    /\ WellOrdered(calls)
    /\ RanAndAdded =>
         [k \in 1..Len(Lookups(calls)) |-> Lookups(calls)[k].i] = NeedLookup
    /\ (pc = "idle" /\ outcome # "added") => Lookups(calls) = <<>>

\* C10 on src/angew_scaper.py alone, where it holds
ScaperEnrichmentOrder ==
    /\ WellOrdered(calls)
    /\ (RanAndAdded /\ variant = "scaper") =>
         [k \in 1..Len(Lookups(calls)) |-> Lookups(calls)[k].i] = NeedLookup
    /\ (pc = "idle" /\ outcome # "added") => Lookups(calls) = <<>>

====
